---- MODULE Spec2Model ----
(***************************************************************************)
(* Model of src/main.py: BaseExchange.fetch_data and MyExchange            *)
(* (load_markets, fetch_tickers, normalize_data, _convert_symbol_to_ccxt)  *)
(* driven by a caller that invokes load_markets and fetch_tickers on one   *)
(* instance in any order.  There is a single asyncio task; its position    *)
(* is pc.  Python strings that the code transforms (asset codes, numeric   *)
(* fields) are sequences of one-character strings.                         *)
(***************************************************************************)
EXTENDS Integers, Sequences, FiniteSets, TLC

VARIABLES
    markets,        \* self.markets: insertion-ordered dict, a sequence of [key, value]
    pc,             \* position of the task
    op,             \* the public method the caller invoked last
    startEmpty,     \* value of `not self.markets` evaluated at main.py:116
    marketsBefore,  \* self.markets when the current call started
    i,              \* position of the `for symbol in self.markets.values()` loop
    result,         \* local `result` of fetch_tickers
    data,           \* decoded body of the last ticker response (local `data`)
    batches,        \* the ticker arrays normalized and merged so far in this call
    listing,        \* the market-listing response received in this call
    log,            \* requests, responses and delays of the current call, in order
    sessions,       \* number of aiohttp.ClientSession objects currently open
    raised,         \* where the current call raised ("none" if it did not)
    returned,       \* what fetch_tickers handed to its caller
    elapsed,        \* time spent in time.sleep during the current call
    prevEmptyLoad   \* the previous call was a load_markets answered 200 with []
                    \* on an empty registry

vars == <<markets, pc, op, startEmpty, marketsBefore, i, result, data, batches,
          listing, log, sessions, raised, returned, elapsed, prevEmptyLoad>>

----------------------------------------------------------------------------
(* Bounds *)
MaxListing == 2     \* items in one market-listing response
MaxBatch == 2       \* raw ticker entries in one ticker response

(* Program constants *)
HTTP_OK == 200
SLEEP_SECONDS == 15

----------------------------------------------------------------------------
(* Values exchanged with the HTTP endpoints *)

SeqsUpTo(S, n) == UNION {[1..k -> S] : k \in 0..n}

Ids == {"bitcoin", "ethereum"}

Item(id) == [has_id |-> TRUE, id |-> id]
NoIdItem == [has_id |-> FALSE, id |-> ""]
Items == {Item(id) : id \in Ids} \cup {NoIdItem}

Statuses == {200, 404}

\* a market-listing response: a status, and a body that decodes to an array of items or not
ListingResponses ==
    {[status |-> st, decodable |-> FALSE, data |-> <<>>] : st \in Statuses}
    \cup {[status |-> st, decodable |-> TRUE, data |-> d] :
             st \in Statuses, d \in SeqsUpTo(Items, MaxListing)}

NoListing == [status |-> 0, decodable |-> FALSE, data |-> <<>>]

\* an optional JSON string field: absent, or a string
Str(s) == [present |-> TRUE, s |-> s]
Absent == [present |-> FALSE, s |-> <<>>]

RawTicker(b, t, l, v, cv, u) ==
    [base |-> b, target |-> t, last |-> l, volume |-> v, has_converted_volume |-> cv, usd |-> u]

GoodTicker(b, l) == RawTicker(Str(b), Str(<<"U">>), Str(l), Str(<<"1">>), TRUE, Str(<<"2">>))

GoodTickers ==
    {GoodTicker(<<"B">>, <<"1">>), GoodTicker(<<"B">>, <<"1", "2">>),
     GoodTicker(<<"B", ":">>, <<"1">>), GoodTicker(<<"B", "/">>, <<"2">>)}

BadTickers ==
    {RawTicker(Absent, Str(<<"U">>), Str(<<"1">>), Str(<<"1">>), TRUE, Str(<<"2">>)),
     RawTicker(Str(<<"B">>), Absent, Str(<<"1">>), Str(<<"1">>), TRUE, Str(<<"2">>)),
     RawTicker(Str(<<"B">>), Str(<<"U">>), Absent, Str(<<"1">>), TRUE, Str(<<"2">>)),
     RawTicker(Str(<<"B">>), Str(<<"U">>), Str(<<"x">>), Str(<<"1">>), TRUE, Str(<<"2">>)),
     RawTicker(Str(<<"B">>), Str(<<"U">>), Str(<<"1">>), Absent, TRUE, Str(<<"2">>)),
     RawTicker(Str(<<"B">>), Str(<<"U">>), Str(<<"1">>), Str(<<"1">>), FALSE, Absent),
     RawTicker(Str(<<"B">>), Str(<<"U">>), Str(<<"1">>), Str(<<"1">>), TRUE, Absent)}

RawTickers == GoodTickers \cup BadTickers

TickerArrays == SeqsUpTo(RawTickers, MaxBatch)

TickerResponses ==
    {[status |-> 404, decodable |-> TRUE, has_tickers |-> FALSE, tickers |-> <<>>],
     [status |-> 200, decodable |-> FALSE, has_tickers |-> FALSE, tickers |-> <<>>],
     [status |-> 200, decodable |-> TRUE, has_tickers |-> FALSE, tickers |-> <<>>]}
    \cup {[status |-> 200, decodable |-> TRUE, has_tickers |-> TRUE, tickers |-> b] : b \in TickerArrays}

NoData == [has_tickers |-> FALSE, tickers |-> <<>>]

----------------------------------------------------------------------------
(* Python dicts *)

TickerInfo(l, bv, qv) == [last |-> l, baseVolume |-> bv, quoteVolume |-> qv]

EmptyDict == [x \in {} |-> TickerInfo(0, 0, 0)]

\* d[k] = v
DictSet(d, k, v) == [x \in (DOMAIN d) \cup {k} |-> IF x = k THEN v ELSE d[x]]

\* an update that keeps the entries d already has
DictUpdate_KeepFirst(d, other) ==
    [x \in (DOMAIN d) \cup (DOMAIN other) |-> IF x \in DOMAIN d THEN d[x] ELSE other[x]]

\* d.update(other)
DictUpdate(d, other) ==
    [x \in (DOMAIN d) \cup (DOMAIN other) |-> IF x \in DOMAIN other THEN other[x] ELSE d[x]]

Keys(m) == {m[k].key : k \in 1..Len(m)}

\* self.markets[key] = value on an insertion-ordered dict
MarketsSet(m, key, value) ==
    IF key \in Keys(m)
    THEN [k \in 1..Len(m) |-> IF m[k].key = key THEN [key |-> key, value |-> value] ELSE m[k]]
    ELSE Append(m, [key |-> key, value |-> value])

----------------------------------------------------------------------------
(* Pure functions of MyExchange *)

\* str.replace(old, new) for one-character old and new
Replace(s, old, new) == [k \in 1..Len(s) |-> IF s[k] = old THEN new ELSE s[k]]

convert_symbol_to_ccxt(symbols) == Replace(symbols, ":", "/")

Digits == {"0", "1", "2", "3", "4", "5", "6", "7", "8", "9"}
DigitValue(c) == CHOOSE n \in 0..9 : <<"0", "1", "2", "3", "4", "5", "6", "7", "8", "9">>[n + 1] = c

\* float(x) raises on None and on a string that is not a number
FloatRaises(x) == ~x.present \/ Len(x.s) = 0 \/ \E k \in 1..Len(x.s) : x.s[k] \notin Digits

RECURSIVE Float(_)
Float(s) == IF Len(s) = 0 THEN 0
            ELSE 10 * Float(SubSeq(s, 1, Len(s) - 1)) + DigitValue(s[Len(s)])

\* main.py:109-112 for one entry: does building the symbol and the TickerInfo raise
EntryRaises(e) ==
    \/ ~e.base.present \/ ~e.target.present
    \/ ~e.last.present \/ FloatRaises(e.last)
    \/ ~e.volume.present \/ FloatRaises(e.volume)
    \/ ~e.has_converted_volume \/ ~e.usd.present \/ FloatRaises(e.usd)

EntrySymbol(e) == convert_symbol_to_ccxt(e.base.s \o <<":">> \o e.target.s)

EntryInfo(e) == TickerInfo(Float(e.last.s), Float(e.volume.s), Float(e.usd.s))

\* a normalization that skips the entries it cannot convert
RECURSIVE NormalizeFrom_SkipBad(_, _, _)
NormalizeFrom_SkipBad(results, k, normalized_data) ==
    IF k > Len(results) THEN [raised |-> FALSE, value |-> normalized_data]
    ELSE IF EntryRaises(results[k]) THEN NormalizeFrom_SkipBad(results, k + 1, normalized_data)
    ELSE NormalizeFrom_SkipBad(results, k + 1,
                       DictSet(normalized_data, EntrySymbol(results[k]), EntryInfo(results[k])))

\* main.py:106-113
RECURSIVE NormalizeFrom(_, _, _)
NormalizeFrom(results, k, normalized_data) ==
    IF k > Len(results) THEN [raised |-> FALSE, value |-> normalized_data]
    ELSE IF EntryRaises(results[k]) THEN [raised |-> TRUE, value |-> EmptyDict]
    ELSE NormalizeFrom(results, k + 1,
                       DictSet(normalized_data, EntrySymbol(results[k]), EntryInfo(results[k])))

normalize_data(results) == NormalizeFrom(results, 1, EmptyDict)

\* a loop that registers nothing unless every item has an id
RECURSIVE RegisterItems_RollBack(_, _, _)
RegisterItems_RollBack(m, items, k) ==
    IF \E j \in k..Len(items) : ~items[j].has_id THEN [raised |-> TRUE, markets |-> m]
    ELSE IF k > Len(items) THEN [raised |-> FALSE, markets |-> m]
    ELSE RegisterItems_RollBack(MarketsSet(m, items[k].id, items[k].id), items, k + 1)

\* main.py:132-134: the loop over the decoded market listing
RECURSIVE RegisterItems(_, _, _)
RegisterItems(m, items, k) ==
    IF k > Len(items) THEN [raised |-> FALSE, markets |-> m]
    ELSE IF ~items[k].has_id THEN [raised |-> TRUE, markets |-> m]
    ELSE RegisterItems(MarketsSet(m, items[k].id, items[k].id), items, k + 1)

\* main.py:130-136: what load_markets does with the response
LoadMarketsBody_Unchecked(m, resp) ==
    LET r == RegisterItems(m, resp.data, 1)
    IN  IF ~resp.decodable THEN [fails |-> "list_json", markets |-> m]
        ELSE IF r.raised THEN [fails |-> "list_key", markets |-> r.markets]
        ELSE [fails |-> IF resp.status # HTTP_OK THEN "list_status" ELSE "none",
              markets |-> r.markets]

LoadMarketsBody_EmptyIsError(m, resp) ==
    LET r == RegisterItems(m, resp.data, 1)
    IN  IF resp.status # HTTP_OK THEN [fails |-> "list_status", markets |-> m]
        ELSE IF ~resp.decodable THEN [fails |-> "list_json", markets |-> m]
        ELSE IF r.raised \/ resp.data = <<>> THEN [fails |-> "list_key", markets |-> r.markets]
        ELSE [fails |-> "none", markets |-> r.markets]

LoadMarketsBody_Refresh(m, resp) ==
    LET r == RegisterItems(<<>>, resp.data, 1)
    IN  IF resp.status # HTTP_OK THEN [fails |-> "list_status", markets |-> m]
        ELSE IF ~resp.decodable THEN [fails |-> "list_json", markets |-> m]
        ELSE IF r.raised THEN [fails |-> "list_key", markets |-> r.markets]
        ELSE [fails |-> "none", markets |-> r.markets]

LoadMarketsBody(m, resp) ==
    LET r == RegisterItems(m, resp.data, 1)
    IN  IF resp.status # HTTP_OK THEN [fails |-> "list_status", markets |-> m]
        ELSE IF ~resp.decodable THEN [fails |-> "list_json", markets |-> m]
        ELSE IF r.raised THEN [fails |-> "list_key", markets |-> r.markets]
        ELSE [fails |-> "none", markets |-> r.markets]

\* main.py:47-52: what fetch_data does with the response
FetchDataBody(resp) ==
    IF resp.status # HTTP_OK THEN "tick_status"
    ELSE IF ~resp.decodable THEN "tick_json"
    ELSE "none"

\* leaving `async with aiohttp.ClientSession() as session`, normally or by an exception
AsyncWithExit_LeakOnRaise(open, fails) == IF fails = "none" THEN open - 1 ELSE open

AsyncWithExit(open, fails) == open - 1

----------------------------------------------------------------------------
(* The task *)

Event(kind, arg) == [kind |-> kind, arg |-> arg]

\* the exception leaving the call, logged after the step that raised it
Raise(fails, arg) == IF fails = "none" THEN <<>> ELSE <<Event("raise", arg)>>

NoReturn == [has |-> FALSE, value |-> EmptyDict]

Init ==
    /\ markets = <<>>
    /\ pc = "idle"
    /\ op = "none"
    /\ startEmpty = FALSE
    /\ marketsBefore = <<>>
    /\ i = 1
    /\ result = EmptyDict
    /\ data = NoData
    /\ batches = <<>>
    /\ listing = NoListing
    /\ log = <<>>
    /\ sessions = 0
    /\ raised = "none"
    /\ returned = NoReturn
    /\ elapsed = 0
    /\ prevEmptyLoad = FALSE

\* what a new call starts from
NewCall ==
    /\ marketsBefore' = markets
    /\ i' = 1
    /\ result' = EmptyDict
    /\ data' = NoData
    /\ batches' = <<>>
    /\ listing' = NoListing
    /\ log' = <<>>
    /\ raised' = "none"
    /\ returned' = NoReturn
    /\ elapsed' = 0
    /\ prevEmptyLoad' = (/\ op = "load_markets" /\ raised = "none"
                         /\ marketsBefore = <<>> /\ listing.data = <<>>)

\* the caller awaits exchange.load_markets()
CallLoadMarkets ==
    /\ pc = "idle"
    /\ op' = "load_markets"
    /\ pc' = "lm_open"
    /\ startEmpty' = FALSE
    /\ NewCall
    /\ UNCHANGED <<markets, sessions>>

\* fetch_tickers without the `if not self.markets` test
CallFetchTickers_AlwaysLoad ==
    /\ pc = "idle"
    /\ op' = "fetch_tickers"
    /\ startEmpty' = (markets = <<>>)
    /\ pc' = "lm_open"
    /\ NewCall
    /\ UNCHANGED <<markets, sessions>>

\* the caller awaits exchange.fetch_tickers(); main.py:116-117
CallFetchTickers ==
    /\ pc = "idle"
    /\ op' = "fetch_tickers"
    /\ startEmpty' = (markets = <<>>)
    /\ pc' = IF markets = <<>> THEN "lm_open" ELSE "ft_loop"
    /\ NewCall
    /\ UNCHANGED <<markets, sessions>>

\* main.py:127-129: open a session and send the market-listing GET
LM_Open ==
    /\ pc = "lm_open"
    /\ sessions' = sessions + 1
    /\ log' = Append(log, Event("list_req", ""))
    /\ pc' = "lm_wait"
    /\ UNCHANGED <<markets, op, startEmpty, marketsBefore, i, result, data, batches,
                   listing, raised, returned, elapsed, prevEmptyLoad>>

\* main.py:130-136: the response arrives; the session is closed on every exit
LM_Response ==
    /\ pc = "lm_wait"
    /\ \E resp \in ListingResponses :
        LET r == LoadMarketsBody(markets, resp)
        IN  /\ listing' = resp
            /\ markets' = r.markets
            /\ raised' = r.fails
            /\ log' = Append(log, Event("list_resp", "")) \o Raise(r.fails, "")
            /\ pc' = IF r.fails = "none" /\ op = "fetch_tickers" THEN "ft_loop" ELSE "idle"
            /\ sessions' = AsyncWithExit(sessions, r.fails)
    /\ UNCHANGED <<op, startEmpty, marketsBefore, i, result, data, batches,
                   returned, elapsed, prevEmptyLoad>>

\* main.py:119-121 and 46-47: next market, open a session and send its ticker GET
FT_Request ==
    /\ pc = "ft_loop"
    /\ i <= Len(markets)
    /\ sessions' = sessions + 1
    /\ log' = Append(log, Event("tick_req", markets[i].value))
    /\ pc' = "fd_wait"
    /\ UNCHANGED <<markets, op, startEmpty, marketsBefore, i, result, data, batches,
                   listing, raised, returned, elapsed, prevEmptyLoad>>

\* main.py:48-52: the ticker response arrives; the session is closed on every exit
FD_Response ==
    /\ pc = "fd_wait"
    /\ \E resp \in TickerResponses :
        LET fails == FetchDataBody(resp)
        IN  /\ raised' = fails
            /\ data' = IF fails = "none"
                       THEN [has_tickers |-> resp.has_tickers, tickers |-> resp.tickers]
                       ELSE data
            /\ log' = Append(log, Event("tick_resp", markets[i].value))
                          \o Raise(fails, markets[i].value)
            /\ pc' = IF fails = "none" THEN "ft_merge" ELSE "idle"
            /\ sessions' = AsyncWithExit(sessions, fails)
    /\ UNCHANGED <<markets, op, startEmpty, marketsBefore, i, result, batches,
                   listing, returned, elapsed, prevEmptyLoad>>

\* main.py:122 without the pacing delay that follows it
FT_Merge_NoSleep ==
    /\ pc = "ft_merge"
    /\ LET n == normalize_data(data.tickers)
           fails == IF ~data.has_tickers THEN "tick_key"
                    ELSE IF n.raised THEN "normalize"
                    ELSE "none"
       IN  /\ raised' = fails
           /\ result' = IF fails = "none" THEN DictUpdate(result, n.value) ELSE result
           /\ batches' = IF fails = "none" THEN Append(batches, data.tickers) ELSE batches
           /\ log' = log \o (IF fails = "none" THEN <<Event("merge", markets[i].value)>>
                              ELSE Raise(fails, markets[i].value))
           /\ pc' = IF fails = "none" THEN "ft_loop" ELSE "idle"
           /\ i' = IF fails = "none" THEN i + 1 ELSE i
    /\ UNCHANGED <<markets, op, startEmpty, marketsBefore, data, listing, sessions,
                   returned, elapsed, prevEmptyLoad>>

\* main.py:122: result.update(self.normalize_data(data['tickers']))
FT_Merge ==
    /\ pc = "ft_merge"
    /\ LET n == normalize_data(data.tickers)
           fails == IF ~data.has_tickers THEN "tick_key"
                    ELSE IF n.raised THEN "normalize"
                    ELSE "none"
       IN  /\ raised' = fails
           /\ result' = IF fails = "none" THEN DictUpdate(result, n.value) ELSE result
           /\ batches' = IF fails = "none" THEN Append(batches, data.tickers) ELSE batches
           /\ log' = log \o (IF fails = "none" THEN <<Event("merge", markets[i].value)>>
                              ELSE Raise(fails, markets[i].value))
           /\ pc' = IF fails = "none" THEN "ft_sleep" ELSE "idle"
    /\ UNCHANGED <<markets, op, startEmpty, marketsBefore, i, data, listing, sessions,
                   returned, elapsed, prevEmptyLoad>>

\* main.py:123: time.sleep(15) returns
FT_Sleep ==
    /\ pc = "ft_sleep"
    /\ elapsed' = elapsed + SLEEP_SECONDS
    /\ log' = Append(log, Event("sleep", markets[i].value))
    /\ i' = i + 1
    /\ pc' = "ft_loop"
    /\ UNCHANGED <<markets, op, startEmpty, marketsBefore, result, data, batches,
                   listing, sessions, raised, returned, prevEmptyLoad>>

\* main.py:124: the loop is exhausted, return result
FT_Return ==
    /\ pc = "ft_loop"
    /\ i > Len(markets)
    /\ returned' = [has |-> TRUE, value |-> result]
    /\ pc' = "idle"
    /\ UNCHANGED <<markets, op, startEmpty, marketsBefore, i, result, data, batches,
                   listing, log, sessions, raised, elapsed, prevEmptyLoad>>

Next ==
    \/ CallLoadMarkets
    \/ CallFetchTickers
    \/ LM_Open
    \/ LM_Response
    \/ FT_Request
    \/ FD_Response
    \/ FT_Merge
    \/ FT_Sleep
    \/ FT_Return

Spec == Init /\ [][Next]_vars

----------------------------------------------------------------------------
(* Helpers for the properties *)

Count(kind) == Cardinality({p \in 1..Len(log) : log[p].kind = kind})

OkEmptyListing == listing.status = HTTP_OK /\ listing.decodable /\ listing.data = <<>>

IsPrefix(s, t) == Len(s) <= Len(t) /\ SubSeq(t, 1, Len(s)) = s

HasRequiredFields(e) ==
    /\ e.base.present /\ e.target.present /\ e.last.present
    /\ e.volume.present /\ e.has_converted_volume /\ e.usd.present

RECURSIVE Flatten(_)
Flatten(ss) == IF ss = <<>> THEN <<>> ELSE Head(ss) \o Flatten(Tail(ss))

\* the mapping that gives every Symbol the TickerInfo of the last entry carrying it
LastWins(entries) ==
    [sym \in {EntrySymbol(entries[k]) : k \in 1..Len(entries)} |->
        LET last == CHOOSE k \in 1..Len(entries) :
                        /\ EntrySymbol(entries[k]) = sym
                        /\ \A j \in (k + 1)..Len(entries) : EntrySymbol(entries[j]) # sym
        IN  EntryInfo(entries[last])]

TickerRequests == SelectSeq(log, LAMBDA e : e.kind = "tick_req")

----------------------------------------------------------------------------
(* C1: a fetch_tickers call issues a market-listing request if and only if  *)
(* the registry was empty when the call started; with an empty registry the *)
(* listing request is the first request of the call, before any ticker      *)
(* request, and with a non-empty registry no listing request is made.       *)
C1_LoadIffRegistryEmpty ==
    op = "fetch_tickers" =>
        /\ startEmpty = (marketsBefore = <<>>)
        /\ ~startEmpty => Count("list_req") = 0
        /\ (startEmpty /\ pc # "lm_open") =>
               /\ Count("list_req") = 1
               /\ log[1].kind = "list_req"

C1_Witness ==
    /\ op = "fetch_tickers" /\ pc = "idle" /\ startEmpty
    /\ Count("list_req") = 1 /\ Count("tick_req") >= 1 /\ returned.has

(* C2: when the market-listing endpoint answers with a non-200 status,      *)
(* load_markets raises and the registry is what it was before the call,     *)
(* also when load_markets was started lazily by fetch_tickers.              *)
C2_FailedListingLeavesRegistry ==
    (pc \notin {"lm_open", "lm_wait"} /\ Count("list_resp") = 1 /\ listing.status # HTTP_OK) =>
        /\ raised = "list_status"
        /\ pc = "idle"
        /\ markets = marketsBefore
        /\ ~returned.has
        /\ Count("tick_req") = 0

C2_Witness ==
    /\ op = "fetch_tickers" /\ raised = "list_status" /\ markets = <<>>
    /\ listing.status = 404 /\ listing.decodable /\ listing.data # <<>>

(* C3: fetch_tickers is all-or-nothing: a failed ticker request or a raw    *)
(* ticker entry without a required field ends the call with an error at     *)
(* that point; nothing is requested afterwards and no mapping is returned,  *)
(* however many markets were merged before.                                 *)
C3_AllOrNothing ==
    op = "fetch_tickers" =>
        /\ \A b \in 1..Len(batches) : \A k \in 1..Len(batches[b]) :
               HasRequiredFields(batches[b][k])
        /\ Count("tick_resp") = Len(batches)
               + (IF pc = "ft_merge" \/ raised \in {"tick_status", "tick_json", "tick_key", "normalize"}
                  THEN 1 ELSE 0)
        /\ raised # "none" =>
               /\ pc = "idle"
               /\ ~returned.has
               /\ log[Len(log)].kind = "raise"
               /\ Count("raise") = 1
        /\ returned.has => (raised = "none" /\ Count("raise") = 0)

C3_Witness ==
    /\ op = "fetch_tickers" /\ pc = "idle" /\ raised = "normalize"
    /\ Len(batches) >= 1 /\ batches[1] # <<>> /\ ~returned.has
    /\ \E k \in 1..Len(data.tickers) : ~data.tickers[k].has_converted_volume

(* C4: a successful fetch_tickers call returns the merge of the normalized  *)
(* batches of all registered markets, taken in registry order, in which a   *)
(* Symbol carried by several entries keeps the TickerInfo of the entry      *)
(* processed last.                                                          *)
C4_LastWriteWins ==
    (op = "fetch_tickers" /\ returned.has) =>
        /\ Len(batches) = Len(markets)
        /\ Len(TickerRequests) = Len(markets)
        /\ \A k \in 1..Len(markets) : TickerRequests[k].arg = markets[k].value
        /\ returned.value = LastWins(Flatten(batches))

C4_Witness ==
    /\ op = "fetch_tickers" /\ returned.has /\ Len(batches) = 2
    /\ batches[1] = <<GoodTicker(<<"B">>, <<"1", "2">>)>>
    /\ batches[2] = <<GoodTicker(<<"B">>, <<"1">>)>>
    /\ returned.value[<<"B", "/", "U">>].last = 1

(* C5: a listing answered 200 with an empty array leaves the registry as it *)
(* was, empty if it was empty; the fetch_tickers call that follows such a   *)
(* load_markets starts on the empty registry, asks for the listing itself,  *)
(* and when that is answered 200 with an empty array too it returns an      *)
(* empty mapping without any ticker request.                                *)
C5_EmptyListing ==
    /\ OkEmptyListing => (markets = marketsBefore /\ raised = "none")
    /\ (op = "fetch_tickers" /\ prevEmptyLoad) => (startEmpty /\ marketsBefore = <<>>)
    /\ (op = "fetch_tickers" /\ startEmpty /\ OkEmptyListing) =>
           /\ markets = <<>>
           /\ Count("tick_req") = 0
           /\ pc \in {"ft_loop", "idle"}
           /\ pc = "idle" => (returned.has /\ returned.value = EmptyDict)

C5_Witness ==
    /\ op = "fetch_tickers" /\ prevEmptyLoad /\ OkEmptyListing
    /\ pc = "idle" /\ returned.has /\ returned.value = EmptyDict

(* C6 as stated: once the registry has been populated, no later call        *)
(* changes it.                                                              *)
C6_Original == [][markets # <<>> => markets' = markets]_vars

(* C6 amended: the registry is empty at construction and only changes when  *)
(* load_markets processes a listing response; once it is non-empty no       *)
(* fetch_tickers call changes it, and an explicit load_markets call only    *)
(* appends entries, leaving the existing ones in place.                     *)
C6_PopulatedOnlyByLoadMarkets ==
    /\ markets = <<>>
    /\ [][markets' # markets =>
            /\ pc = "lm_wait"
            /\ op = "load_markets" \/ markets = <<>>
            /\ IsPrefix(markets, markets')]_vars

C6_Witness ==
    /\ op = "load_markets" /\ pc = "idle" /\ marketsBefore # <<>>
    /\ Len(markets) > Len(marketsBefore)

(* C7: every raw ticker entry with non-empty base and target codes is keyed *)
(* under the Symbol made of the base code, one "/" and the target code.     *)
C7_SymbolIsBaseSlashTarget ==
    pc = "ft_sleep" =>
        \A k \in 1..Len(data.tickers) :
            LET e == data.tickers[k]
            IN  (e.base.s # <<>> /\ e.target.s # <<>>) =>
                    /\ (e.base.s \o <<"/">> \o e.target.s) \in DOMAIN result
                    /\ DOMAIN normalize_data(<<e>>).value = {e.base.s \o <<"/">> \o e.target.s}

(* C8: the ticker requests of one call are sequential and paced: a request  *)
(* is sent only after the previous market's response was received,          *)
(* normalized and merged and the delay after it has completed, and at most  *)
(* one request is in flight.                                                *)
C8_SequentialAndPaced ==
    /\ (Count("list_req") + Count("tick_req")) - (Count("list_resp") + Count("tick_resp")) \in {0, 1}
    /\ \A p \in 1..Len(log) :
           (log[p].kind = "tick_req" /\ \E q \in 1..(p - 1) : log[q].kind = "tick_req") =>
               /\ p >= 5
               /\ log[p - 4].kind = "tick_req"
               /\ log[p - 3].kind = "tick_resp"
               /\ log[p - 2].kind = "merge"
               /\ log[p - 1].kind = "sleep"
               /\ {log[p - 4].arg, log[p - 3].arg, log[p - 2].arg} = {log[p - 1].arg}
    /\ pc = "fd_wait" => elapsed = SLEEP_SECONDS * (Count("tick_req") - 1)

C8_Witness ==
    /\ pc = "fd_wait" /\ Count("tick_req") = 2 /\ elapsed = 15
    /\ log[Len(log) - 1].kind = "sleep"

(* C9: a session lives for one request: one is open exactly while a request *)
(* awaits its response, so never two at once, and none after the operation  *)
(* returned or raised, between operations or during the pacing delay.       *)
C9_SessionPerRequest ==
    /\ sessions \in {0, 1}
    /\ sessions = 1 <=> pc \in {"lm_wait", "fd_wait"}
    /\ sessions = (Count("list_req") + Count("tick_req")) - (Count("list_resp") + Count("tick_resp"))

C9_Witness ==
    /\ pc = "idle" /\ raised = "list_key" /\ sessions = 0
    /\ Count("list_req") = 1

(* C10: load_markets registers item by item and does not roll back: when    *)
(* the first item without an id is at position k, the call raises and the   *)
(* registry is its content before the call followed by an entry id -> id    *)
(* for the ids before position k; every key maps to itself and no step      *)
(* removes a key.                                                           *)
C10_PartialLoadKept ==
    /\ [](raised = "list_key" =>
            LET items == listing.data
                k == CHOOSE j \in 1..Len(items) :
                         ~items[j].has_id /\ \A h \in 1..(j - 1) : items[h].has_id
                added == SubSeq(markets, Len(marketsBefore) + 1, Len(markets))
                First(id) == CHOOSE j \in 1..(k - 1) :
                                 items[j].id = id /\ \A h \in 1..(j - 1) : items[h].id # id
            IN  /\ listing.status = HTTP_OK
                /\ IsPrefix(marketsBefore, markets)
                /\ Keys(added) = {items[j].id : j \in 1..(k - 1)} \ Keys(marketsBefore)
                /\ Len(added) = Cardinality(Keys(added))
                /\ \A a, b \in 1..Len(added) :
                       a < b => First(added[a].key) < First(added[b].key))
    /\ [](\A k \in 1..Len(markets) : markets[k].value = markets[k].key)
    /\ [][Keys(markets) \subseteq Keys(markets')]_vars

C10_Witness ==
    /\ raised = "list_key" /\ pc = "idle"
    /\ Len(markets) > Len(marketsBefore)
    /\ Len(listing.data) >= 2

----------------------------------------------------------------------------
TypeOK ==
    /\ pc \in {"idle", "lm_open", "lm_wait", "ft_loop", "fd_wait", "ft_merge", "ft_sleep"}
    /\ op \in {"none", "load_markets", "fetch_tickers"}
    /\ sessions \in 0..2
    /\ i \in 1..(Len(markets) + 1)
====
